---- MODULE Spec2Model ----
(***************************************************************************)
(* Book-Contents-Chapter: the outline tree (app.py), the chapter boundary  *)
(* detector and the page range splitter (split_chapters.py, app.py), the   *)
(* file name sanitizer (split_chapters.py), the bookmark writer (main.py), *)
(* the workflow (workflow.py) and the batch summary loop (summarize.py,    *)
(* workflow.py).                                                           *)
(*                                                                         *)
(* Text is modelled as a sequence of one-character strings, so that        *)
(* str.strip, re.sub, slicing and the chapter-number pattern are computed  *)
(* character by character.                                                 *)
(***************************************************************************)
EXTENDS Integers, Sequences, FiniteSets, TLC

VARIABLES
    \* sanitize_filename (split_chapters.py)
    name,          \* the argument of the latest call
    filename,      \* its return value
    calls,         \* how many times it has been applied in a row
    \* one split request: split_chapters.py main, or app.py /api/split-chapters
    mode,          \* "bookmarks" | "json" (the CLI's two sources) | "web"
    toc_data,      \* CLI: the PDF's bookmarks, or the "toc" array of toc.json
    page_offset,   \* CLI: --page-offset
    selected,      \* web: the "chapters" array of the request body
    total_pages,   \* len(doc)
    pc,            \* "start" | "done" | "exit1" | "error400" | "exception"
    chapters,      \* the anchors the loop ran over, in loop order
    results,       \* one record per loop iteration, in loop order
    files,         \* the chapter files in the output directory
    dir_created,   \* os.makedirs(output_dir) was reached
    \* the outline of one document: app.py /api/outline and /api/outline/save
    doc_toc,       \* the outline stored in the PDF: doc.get_toc() rows
    tmp_exists,    \* the file abs_path + ".tocsave.tmp.pdf" exists
    opc,           \* "start" | "shown" (after /api/outline) | "saved" (after a save)
    toc_rows,      \* api_outline: toc, the rows it read
    outline,       \* api_outline: the tree it returned
    submitted,     \* api_save_outline: the "outline" of the request body
    flat_toc,      \* api_save_outline: the flat list, <<>> while there is none
    response,      \* api_save_outline: the response
    \* main.py add_bookmarks (it reads toc_data, page_offset and total_pages)
    bpc,           \* "idle" | "start" | "done"
    toc_list,      \* the rows handed to doc.set_toc
    \* one run of workflow.py main
    steps,         \* parse_steps(args.steps)
    dir_given,     \* --chapters-dir was given
    input_has_toc, \* the input PDF carries bookmarks of its own
    wpc,           \* the position of the run, see the workflow section
    executed,      \* the sub-steps started so far, in order
    answers,       \* the answers confirm() returned so far, in order (TRUE = yes)
    bookmarked_pdf,\* main: "input" | "bookmarked" (what step 1 returned)
    split_input,   \* the PDF step 2 read and split: "none" | "input" | "bookmarked"
    chapters_dir,  \* main: "none" | "given" | "book" (what step 2 returned)
    \* the batch summary loop over re-runs: summarize.py main, workflow.py step 3
    tool,          \* "summarize" | "workflow"
    pdf_files,     \* the sorted chapter PDFs, numbered 1..n
    md_files,      \* the chapters whose summary file exists
    start_from,    \* --start-from of the current run (1 in the workflow)
    spc,           \* "ready" | "loop" | "done" | "exit1"
    loop_i,        \* the loop's i
    sent,          \* per chapter, the calls of summarize_chapter so far
    succeeded,     \* per chapter, the calls that returned a summary
    runs           \* the runs started so far

sanVars == <<name, filename, calls>>
splitVars == <<mode, toc_data, page_offset, selected, pc,
               chapters, results, files, dir_created>>
outlineVars == <<doc_toc, tmp_exists, opc, toc_rows, outline, submitted, flat_toc,
                 response>>
bmVars == <<bpc, toc_list>>
wfVars == <<steps, dir_given, input_has_toc, wpc, executed, answers,
            bookmarked_pdf, split_input, chapters_dir>>
sumVars == <<tool, pdf_files, md_files, start_from, spc, loop_i, sent, succeeded, runs>>

vars == <<sanVars, splitVars, outlineVars, bmVars, wfVars, sumVars, total_pages>>

Min(a, b) == IF a < b THEN a ELSE b
Max(a, b) == IF a > b THEN a ELSE b

(***************************************************************************)
(* Text helpers                                                            *)
(***************************************************************************)

\* str.strip(chars): drop leading and trailing characters that are in chars
RECURSIVE lstrip(_, _)
lstrip(s, chars) ==
    IF s # <<>> /\ Head(s) \in chars THEN lstrip(Tail(s), chars) ELSE s

RECURSIVE rstrip(_, _)
rstrip(s, chars) ==
    IF s # <<>> /\ s[Len(s)] \in chars
    THEN rstrip(SubSeq(s, 1, Len(s) - 1), chars)
    ELSE s

strip(s, chars) == rstrip(lstrip(s, chars), chars)

\* s[:n]
Slice(s, n) == SubSeq(s, 1, Min(Len(s), n))

(***************************************************************************)
(* sanitize_filename                                                       *)
(***************************************************************************)

\* the character class of re.sub(r'[\\/:*?"<>|]', '_', name)
Forbidden == {"\\", "/", ":", "*", "?", "\"", "<", ">", "|"}

\* name[:100]
NameLimit == 100

untitled == <<"u", "n", "t", "i", "t", "l", "e", "d">>

ReplaceForbidden(s) ==
    [i \in 1..Len(s) |-> IF s[i] \in Forbidden THEN "_" ELSE s[i]]

sanitize_filename(s) ==
    LET stripped == strip(ReplaceForbidden(s), {".", " "})
    IN  IF stripped # <<>> THEN Slice(stripped, NameLimit) ELSE untitled

(***************************************************************************)
(* find_top_level_chapters                                                 *)
(***************************************************************************)

\* what str.strip() removes and what \s matches
Whitespace == {" ", "\t", "\n"}

\* what \d matches
Digits == {"0", "1", "2", "3", "4", "5", "6", "7", "8", "9"}

\* the two ideograms of the pattern, each one character of the title
DI == "<di>"
ZHANG == "<zhang>"

\* re.IGNORECASE, on the letters the pattern names
Lower(c) ==
    CASE c = "C" -> "c"
      [] c = "H" -> "h"
      [] c = "A" -> "a"
      [] c = "P" -> "p"
      [] c = "T" -> "t"
      [] c = "E" -> "e"
      [] c = "R" -> "r"
      [] OTHER -> c

\* the first index from i on whose character is outside class (Len(s) + 1 if none):
\* where a greedy class* stops
RECURSIVE SkipWhile(_, _, _)
SkipWhile(s, i, class) ==
    IF i <= Len(s) /\ s[i] \in class THEN SkipWhile(s, i + 1, class) ELSE i

chapterWord == <<"c", "h", "a", "p", "t", "e", "r">>

\* ^chapter\s+\d+
MatchChapterWord(s) ==
    /\ Len(s) >= Len(chapterWord)
    /\ \A i \in 1..Len(chapterWord) : Lower(s[i]) = chapterWord[i]
    /\ LET j == SkipWhile(s, Len(chapterWord) + 1, Whitespace)
       IN  /\ j > Len(chapterWord) + 1
           /\ j <= Len(s)
           /\ s[j] \in Digits

\* ^<di>\s*\d+\s*<zhang>
MatchIdeogram(s) ==
    /\ Len(s) >= 1
    /\ s[1] = DI
    /\ LET j == SkipWhile(s, 2, Whitespace)
           k == SkipWhile(s, j, Digits)
           m == SkipWhile(s, k, Whitespace)
       IN  /\ k > j
           /\ m <= Len(s)
           /\ s[m] = ZHANG

\* ^\d+ alone, without the whitespace after the number
MatchLeadingNumberLoose(s) ==
    LET k == SkipWhile(s, 1, Digits)
    IN  k > 1

\* ^\d+\s
MatchLeadingNumber(s) ==
    LET k == SkipWhile(s, 1, Digits)
    IN  /\ k > 1
        /\ k <= Len(s)
        /\ s[k] \in Whitespace

\* chapter_pattern.search(item["title"].strip())
chapter_pattern(title) ==
    LET s == strip(title, Whitespace)
    IN  MatchChapterWord(s) \/ MatchIdeogram(s) \/ MatchLeadingNumber(s)

\* min(item["level"] for item in items); items is not empty
MinLevel(items) ==
    CHOOSE l \in {items[i].level : i \in DOMAIN items} :
        \A i \in DOMAIN items : l <= items[i].level

IsNumberedItem(item) == chapter_pattern(item.title)

\* the fallback taking the first level instead of the smallest
find_top_level_chapters_first_level(toc) ==
    LET numbered == SelectSeq(toc, IsNumberedItem)
    IN  IF numbered = <<>>
        THEN IF toc = <<>>
             THEN [raised |-> TRUE, value |-> <<>>]
             ELSE [raised |-> FALSE,
                   value |-> SelectSeq(toc, LAMBDA item : item.level = toc[1].level)]
        ELSE [raised |-> FALSE,
              value |-> SelectSeq(numbered,
                                  LAMBDA item : item.level = MinLevel(numbered))]

\* the minimum level taken over all entries instead of the numbered ones
find_top_level_chapters_min_of_all(toc) ==
    LET numbered == SelectSeq(toc, IsNumberedItem)
    IN  IF numbered = <<>>
        THEN IF toc = <<>>
             THEN [raised |-> TRUE, value |-> <<>>]
             ELSE [raised |-> FALSE,
                   value |-> SelectSeq(toc, LAMBDA item : item.level = MinLevel(toc))]
        ELSE [raised |-> FALSE,
              value |-> SelectSeq(numbered,
                                  LAMBDA item : item.level = MinLevel(toc))]

\* raised: min() of an empty sequence raises ValueError (no numbered entry, empty toc)
find_top_level_chapters(toc) ==
    LET numbered == SelectSeq(toc, IsNumberedItem)
    IN  IF numbered = <<>>
        THEN IF toc = <<>>
             THEN [raised |-> TRUE, value |-> <<>>]
             ELSE [raised |-> FALSE,
                   value |-> SelectSeq(toc, LAMBDA item : item.level = MinLevel(toc))]
        ELSE [raised |-> FALSE,
              value |-> SelectSeq(numbered,
                                  LAMBDA item : item.level = MinLevel(numbered))]

(***************************************************************************)
(* Reading the table of contents (split_chapters.py)                       *)
(***************************************************************************)

\* doc.get_toc() rows as records; an empty outline gives []
get_toc_from_bookmarks(bookmarks) == bookmarks

\* printed page + offset, nothing else
get_toc_from_json(items, offset) ==
    [i \in 1..Len(items) |->
        [level |-> items[i].level,
         title |-> items[i].title,
         page  |-> items[i].page + offset]]

(***************************************************************************)
(* Writing the bookmarks (main.py)                                         *)
(***************************************************************************)

\* the page raised to 1 but not lowered to the last page
add_bookmarks_no_ceiling(items, offset, total) ==
    [i \in 1..Len(items) |->
        LET pdf_page == items[i].page + offset
        IN  [level |-> items[i].level,
             title |-> items[i].title,
             page  |-> IF pdf_page < 1 THEN 1 ELSE pdf_page]]

\* toc_list, as handed to doc.set_toc
add_bookmarks(items, offset, total) ==
    [i \in 1..Len(items) |->
        LET pdf_page == items[i].page + offset
        IN  [level |-> items[i].level,
             title |-> items[i].title,
             page  |-> IF pdf_page < 1 THEN 1
                       ELSE IF pdf_page > total THEN total
                       ELSE pdf_page]]

(***************************************************************************)
(* The split loops                                                         *)
(***************************************************************************)

pdf == <<".", "p", "d", "f">>

\* one iteration of either loop: anchors[i] with its successor's page
RangeOf(anchors, i, total) ==
    LET end_raw == IF i + 1 <= Len(anchors)
                   THEN anchors[i + 1].page - 1
                   ELSE total
        start_page == Max(1, Min(anchors[i].page, total))
        end_page == Max(start_page, Min(end_raw, total))
    IN  [title |-> anchors[i].title,
         file  |-> sanitize_filename(anchors[i].title) \o pdf,
         start |-> start_page,
         end   |-> end_page]

\* new_doc.save(output_path) for each iteration in turn: a later chapter with the
\* same file name replaces the earlier file
RECURSIVE SaveAll(_, _)
SaveAll(written, rs) ==
    IF rs = <<>> THEN written
    ELSE SaveAll({f \in written : f.file # Head(rs).file}
                    \cup {[file |-> Head(rs).file,
                           start |-> Head(rs).start,
                           end |-> Head(rs).end]},
                 Tail(rs))

\* the end page clamped to the document but not raised to the start page
split_loop_no_floor(anchors, total) ==
    [i \in 1..Len(anchors) |->
        [RangeOf(anchors, i, total) EXCEPT
            !.end = Min(IF i + 1 <= Len(anchors)
                        THEN anchors[i + 1].page - 1 ELSE total, total)]]

\* split_chapters.py, the loop over find_top_level_chapters' result as returned
split_loop(anchors, total) ==
    [i \in 1..Len(anchors) |-> RangeOf(anchors, i, total)]

\* a chapter running up to and including the page the next chapter starts on
api_split_loop_inclusive_end(sorted, total) ==
    [i \in 1..Len(sorted) |->
        LET r == RangeOf(sorted, i, total)
        IN  [r EXCEPT !.end = Max(r.start,
                                  Min(IF i + 1 <= Len(sorted)
                                      THEN sorted[i + 1].page ELSE total, total))]]

\* app.py, the loop over the sorted request
api_split_loop(sorted, total) ==
    [i \in 1..Len(sorted) |-> RangeOf(sorted, i, total)]

\* list.sort(key=page): stable, so an insertion after the last entry whose page
\* is not greater
RECURSIVE InsertByPage(_, _)
InsertByPage(sorted, c) ==
    IF sorted = <<>> THEN <<c>>
    ELSE IF sorted[Len(sorted)].page <= c.page THEN Append(sorted, c)
    ELSE Append(InsertByPage(SubSeq(sorted, 1, Len(sorted) - 1), c),
                sorted[Len(sorted)])

RECURSIVE SortByPageFrom(_, _)
SortByPageFrom(sorted, rest) ==
    IF rest = <<>> THEN sorted
    ELSE SortByPageFrom(InsertByPage(sorted, Head(rest)), Tail(rest))

sort_by_page(cs) == SortByPageFrom(<<>>, cs)

\* split_chapters(input_pdf, toc, output_dir): outcome, anchors, ranges, files
split_chapters(toc, total) ==
    LET found == find_top_level_chapters(toc)
        rs == split_loop(found.value, total)
    IN  IF found.raised
        THEN [pc |-> "exception", chapters |-> <<>>, results |-> <<>>, files |-> {}]
        ELSE IF found.value = <<>>
        THEN [pc |-> "exit1", chapters |-> <<>>, results |-> <<>>, files |-> {}]
        ELSE [pc |-> "done", chapters |-> found.value, results |-> rs,
              files |-> SaveAll({}, rs)]

(***************************************************************************)
(* The outline tree (app.py)                                               *)
(*                                                                         *)
(* A tree is a JSON document: a list of nodes {title, page, level,         *)
(* children}. A page in it is a JSON value, written [kind, value]:         *)
(*   "int"   the integer value;                                            *)
(*   "float" the number value + 1/2 (value >= 0), not an integer;          *)
(*   "str"   the decimal text of the integer value;                        *)
(*   "null"  null.                                                         *)
(* The rows of doc.get_toc() and of the flat list are [level, title,       *)
(* page] with an integer page.                                             *)
(***************************************************************************)
JInt(n) == [kind |-> "int", value |-> n]
JFloat(n) == [kind |-> "float", value |-> n]
JStr(n) == [kind |-> "str", value |-> n]
JNull == [kind |-> "null", value |-> 0]

\* int(v): an int as it is, a float truncated toward zero, a decimal string
\* parsed; anything else raises
int(v) ==
    IF v.kind \in {"int", "float", "str"}
    THEN [raised |-> FALSE, value |-> v.value]
    ELSE [raised |-> TRUE, value |-> 0]

\* the list a stack entry refers to, named by the child indices leading to it
RECURSIVE ListAt(_, _)
ListAt(root, path) ==
    IF path = <<>> THEN root ELSE ListAt(root[Head(path)].children, Tail(path))

\* list.append(node) on the list a stack entry refers to
RECURSIVE AppendAt(_, _, _)
AppendAt(root, path, node) ==
    IF path = <<>> THEN Append(root, node)
    ELSE [root EXCEPT ![Head(path)].children = AppendAt(@, Tail(path), node)]

\* while len(stack) > 1 and stack[-1][0] > level: the comparison of a builder that
\* nests an entry under a preceding entry of the same level
RECURSIVE PopStackStrict(_, _)
PopStackStrict(stack, level) ==
    IF Len(stack) > 1 /\ stack[Len(stack)].level > level
    THEN PopStackStrict(SubSeq(stack, 1, Len(stack) - 1), level)
    ELSE stack

\* if len(stack) > 1 and stack[-1][0] >= level: stack.pop(), a single pop
PopStackOnce(stack, level) ==
    IF Len(stack) > 1 /\ stack[Len(stack)].level >= level
    THEN SubSeq(stack, 1, Len(stack) - 1)
    ELSE stack

\* while len(stack) > 1 and stack[-1][0] >= level: stack.pop()
RECURSIVE PopStack(_, _)
PopStack(stack, level) ==
    IF Len(stack) > 1 /\ stack[Len(stack)].level >= level
    THEN PopStack(SubSeq(stack, 1, Len(stack) - 1), level)
    ELSE stack

\* the loop of build_tree from row i on
RECURSIVE BuildFrom(_, _, _, _)
BuildFrom(flat, i, root, stack) ==
    IF i > Len(flat) THEN root
    ELSE LET node == [title |-> flat[i].title, page |-> JInt(flat[i].page),
                      level |-> flat[i].level, children |-> <<>>]
             popped == PopStack(stack, flat[i].level)
             parent == popped[Len(popped)].path
             here == Append(parent, Len(ListAt(root, parent)) + 1)
         IN  BuildFrom(flat, i + 1, AppendAt(root, parent, node),
                       Append(popped, [level |-> flat[i].level, path |-> here]))

\* stack = [(0, root)]
build_tree(flat) == BuildFrom(flat, 1, <<>>, <<[level |-> 0, path |-> <<>>]>>)

Raise(kind, title) == [raised |-> TRUE, flat |-> <<>>, error |-> kind, title |-> title]

\* a traversal that leaves out a subtree it cannot flatten instead of failing
RECURSIVE FlatFromLenient(_, _, _, _, _)
FlatFromLenient(nodes, i, total, level, flat) ==
    IF i > Len(nodes)
    THEN [raised |-> FALSE, flat |-> flat, error |-> "", title |-> <<>>]
    ELSE LET node == nodes[i]
             title == strip(node.title, Whitespace)
             page == int(node.page)
             sub == IF node.children # <<>>
                    THEN FlatFromLenient(node.children, 1, total, level + 1, <<>>)
                    ELSE [raised |-> FALSE, flat |-> <<>>, error |-> "", title |-> <<>>]
         IN  IF title = <<>> THEN Raise("empty title", <<>>)
             ELSE IF page.raised THEN Raise("invalid page", title)
             ELSE IF page.value < 1 \/ page.value > total
             THEN Raise("page out of range", title)
             ELSE FlatFromLenient(nodes, i + 1, total, level,
                                  flat \o <<[level |-> level, title |-> title,
                                             page |-> page.value]>>
                                       \o (IF sub.raised THEN <<>> ELSE sub.flat))

\* a traversal that writes the node's stored level
RECURSIVE FlatFromStoredLevel(_, _, _, _, _)
FlatFromStoredLevel(nodes, i, total, level, flat) ==
    IF i > Len(nodes)
    THEN [raised |-> FALSE, flat |-> flat, error |-> "", title |-> <<>>]
    ELSE LET node == nodes[i]
             title == strip(node.title, Whitespace)
             page == int(node.page)
             sub == IF node.children # <<>>
                    THEN FlatFromStoredLevel(node.children, 1, total, level + 1, <<>>)
                    ELSE [raised |-> FALSE, flat |-> <<>>, error |-> "", title |-> <<>>]
         IN  IF title = <<>> THEN Raise("empty title", <<>>)
             ELSE IF page.raised THEN Raise("invalid page", title)
             ELSE IF page.value < 1 \/ page.value > total
             THEN Raise("page out of range", title)
             ELSE IF sub.raised THEN sub
             ELSE FlatFromStoredLevel(nodes, i + 1, total, level,
                                      flat \o <<[level |-> node.level, title |-> title,
                                                 page |-> page.value]>> \o sub.flat)

\* a traversal that looks at the later siblings before it reports a fault found
\* below a node
RECURSIVE FlatFromSiblingsFirst(_, _, _, _, _)
FlatFromSiblingsFirst(nodes, i, total, level, flat) ==
    IF i > Len(nodes)
    THEN [raised |-> FALSE, flat |-> flat, error |-> "", title |-> <<>>]
    ELSE LET node == nodes[i]
             title == strip(node.title, Whitespace)
             page == int(node.page)
             sub == IF node.children # <<>>
                    THEN FlatFromSiblingsFirst(node.children, 1, total, level + 1, <<>>)
                    ELSE [raised |-> FALSE, flat |-> <<>>, error |-> "", title |-> <<>>]
             rest == FlatFromSiblingsFirst(nodes, i + 1, total, level, flat)
         IN  IF title = <<>> THEN Raise("empty title", <<>>)
             ELSE IF page.raised THEN Raise("invalid page", title)
             ELSE IF page.value < 1 \/ page.value > total
             THEN Raise("page out of range", title)
             ELSE IF sub.raised THEN (IF rest.raised THEN rest ELSE sub)
             ELSE FlatFromSiblingsFirst(nodes, i + 1, total, level,
                                        flat \o <<[level |-> level, title |-> title,
                                                   page |-> page.value]>> \o sub.flat)

\* a traversal that writes a node's children before the node itself
RECURSIVE FlatFromChildrenFirst(_, _, _, _, _)
FlatFromChildrenFirst(nodes, i, total, level, flat) ==
    IF i > Len(nodes)
    THEN [raised |-> FALSE, flat |-> flat, error |-> "", title |-> <<>>]
    ELSE LET node == nodes[i]
             title == strip(node.title, Whitespace)
             page == int(node.page)
             sub == IF node.children # <<>>
                    THEN FlatFromChildrenFirst(node.children, 1, total, level + 1, <<>>)
                    ELSE [raised |-> FALSE, flat |-> <<>>, error |-> "", title |-> <<>>]
         IN  IF title = <<>> THEN Raise("empty title", <<>>)
             ELSE IF page.raised THEN Raise("invalid page", title)
             ELSE IF page.value < 1 \/ page.value > total
             THEN Raise("page out of range", title)
             ELSE IF sub.raised THEN sub
             ELSE FlatFromChildrenFirst(nodes, i + 1, total, level,
                                        flat \o sub.flat
                                             \o <<[level |-> level, title |-> title,
                                                   page |-> page.value]>>)

\* the loop of _outline_tree_to_flat from node i on; flat is the list so far
RECURSIVE FlatFrom(_, _, _, _, _)
FlatFrom(nodes, i, total, level, flat) ==
    IF i > Len(nodes)
    THEN [raised |-> FALSE, flat |-> flat, error |-> "", title |-> <<>>]
    ELSE LET node == nodes[i]
             title == strip(node.title, Whitespace)
             page == int(node.page)
             sub == IF node.children # <<>>
                    THEN FlatFrom(node.children, 1, total, level + 1, <<>>)
                    ELSE [raised |-> FALSE, flat |-> <<>>, error |-> "", title |-> <<>>]
         IN  IF title = <<>> THEN Raise("empty title", <<>>)
             ELSE IF page.raised THEN Raise("invalid page", title)
             ELSE IF page.value < 1 \/ page.value > total
             THEN Raise("page out of range", title)
             ELSE IF sub.raised THEN sub
             ELSE FlatFrom(nodes, i + 1, total, level,
                           flat \o <<[level |-> level, title |-> title,
                                      page |-> page.value]>> \o sub.flat)

\* raised: a ValueError; error and title are what its message names
_outline_tree_to_flat(nodes, total, level) == FlatFrom(nodes, 1, total, level, <<>>)

NoResponse == [status |-> 0, error |-> "", title |-> <<>>]

(***************************************************************************)
(* The workflow (workflow.py)                                              *)
(*                                                                         *)
(* Positions of a run: "1a", "1b", "1c", "2", "3", "3_api" before the      *)
(* sub-step of that name ("3" is step3_summarize up to its confirmation,   *)
(* "3_api" its loop over the chapters); "confirm_" and the name of a       *)
(* sub-step inside the confirm() that follows it; "finished" after the     *)
(* last line of main; "exit0" after sys.exit(0), "exit1" after             *)
(* sys.exit(1), "exception" after an uncaught exception.                   *)
(***************************************************************************)

\* main: the first requested step among k, k + 1, ..., 3
NextStepFrom(requested, k) ==
    IF k <= 1 /\ 1 \in requested THEN "1a"
    ELSE IF k <= 2 /\ 2 \in requested THEN "2"
    ELSE IF k <= 3 /\ 3 \in requested THEN "3"
    ELSE "finished"

\* a run that goes on whatever confirm() returned
after_confirm_regardless(requested, at, yes) ==
    CASE at = "confirm_1a" -> "1b"
      [] at = "confirm_1b" -> "1c"
      [] at = "confirm_1c" -> NextStepFrom(requested, 2)
      [] at = "confirm_2" -> NextStepFrom(requested, 3)
      [] at = "confirm_3" -> "3_api"

\* if not confirm(...): sys.exit(0); otherwise on to what follows
after_confirm(requested, at, yes) ==
    IF ~yes THEN "exit0"
    ELSE CASE at = "confirm_1a" -> "1b"
           [] at = "confirm_1b" -> "1c"
           [] at = "confirm_1c" -> NextStepFrom(requested, 2)
           [] at = "confirm_2" -> NextStepFrom(requested, 3)
           [] at = "confirm_3" -> "3_api"

(***************************************************************************)
(* The batch summary loop (summarize.py main, workflow.py step3_summarize) *)
(*                                                                         *)
(* A chapter PDF is named by its file name without the extension, a number *)
(* here; its summary file is that name with ".md", so md_files is a set of *)
(* the same numbers.                                                       *)
(***************************************************************************)

\* a loop that never finds a summary in place
already_summarized_never(existing, chapter) == FALSE

\* os.path.isfile(md_path)
already_summarized(existing, chapter) == chapter \in existing

\* if i < args.start_from: continue (summarize.py only)
before_start(which, i, from) == which = "summarize" /\ i < from

(***************************************************************************)
(* Inputs                                                                  *)
(***************************************************************************)
SeqsUpTo(S, n) == UNION {[1..k -> S] : k \in 0..n}

\* sanitizer: a short head, a run of letters whose length is around the limit
\* (or absent), a short tail
MaxHead == 1
MaxTail == 2
MaxCalls == 2

SanAlphabet == {"a", " ", ".", "/"}

Pad(k) == [i \in 1..k |-> "a"]

PadLens == {0} \cup ((NameLimit - 2)..NameLimit)

NameInputs ==
    {h \o Pad(k) \o t :
        h \in SeqsUpTo(SanAlphabet, MaxHead),
        k \in PadLens,
        t \in SeqsUpTo(SanAlphabet, MaxTail)}

\* split: documents of 1..MaxPages pages, at most MaxToc entries or anchors,
\* pages from one below the first page to one past the longest document
MaxPages == 3
MaxToc == 3
MaxOffset == 1

Pages == 0..(MaxPages + 1)
PageOffsets == (0 - MaxOffset)..MaxOffset

\* "1 A": a numbered chapter; "1.1 B": a section, not numbered
ChapterTitle == <<"1", " ", "A">>
SectionTitle == <<"1", ".", "1", " ", "B">>

SplitEntries ==
    {[level |-> 1, title |-> ChapterTitle, page |-> p] : p \in Pages}
        \cup {[level |-> 2, title |-> SectionTitle, page |-> p] : p \in Pages}

Anchors == {[title |-> ChapterTitle, page |-> p] : p \in Pages}

\* detector: entries of every level up to MaxTocLevel with numbered and
\* un-numbered titles, all printed on page 1
MaxTocLevel == 2

DetectTitles ==
    {<<"1", " ", "A">>,             \* "1 A"
     <<"2", " ", "B">>,             \* "2 B"
     <<"P">>,                       \* "P"
     <<"1", ".", "1", " ", "C">>}   \* "1.1 C"

DetectEntries ==
    {[level |-> l, title |-> t, page |-> 1] : l \in 1..MaxTocLevel, t \in DetectTitles}

\* classification: titles made of an optional leading blank, a head (nothing, the
\* word in three spellings, the first ideogram, or "1.1") and a tail of up to
\* MaxTitleTail characters
MaxTitleTail == 3

TitleHeads ==
    {<<>>,
     <<"c", "h", "a", "p", "t", "e", "r">>,
     <<"C", "H", "A", "P", "T", "E", "R">>,
     <<"C", "h", "A", "p", "T", "e", "R">>,
     <<DI>>,
     <<"1", ".", "1">>}

TitleAlphabet == {" ", "1", ".", "A", DI, ZHANG}

ClassifyTitles ==
    {lead \o head \o tail :
        lead \in {<<>>, <<" ">>},
        head \in TitleHeads,
        tail \in SeqsUpTo(TitleAlphabet, MaxTitleTail)}

\* an un-numbered entry at level 1, then the entry to classify at level 2: the
\* detector returns the second entry alone exactly when it takes it as numbered
PlainEntry == [level |-> 1, title |-> <<"P">>, page |-> 1]

ClassifyTocs ==
    {<<PlainEntry, [level |-> 2, title |-> t, page |-> 1]>> : t \in ClassifyTitles}

\* workflow: --steps a-b with a and b up to MaxStep
MaxStep == 3

StepSets == {a..b : a \in 1..MaxStep, b \in 1..MaxStep}

\* summaries: up to MaxChapters chapter PDFs, up to MaxRuns runs over them
MaxChapters == 3
MaxRuns == 2

\* outline: documents of 1..MaxDocPages pages whose stored outline has at most
\* MaxEntries rows of levels 1..MaxLevel. Row i is titled with i letters; one row
\* may carry a leading blank; the pages are all 1, or 1, 2, ... up to MaxDocPages.
MaxDocPages == 2
MaxEntries == 3
MaxLevel == 3

MakeToc(levels, spaced, ascending) ==
    [i \in 1..Len(levels) |->
        [level |-> levels[i],
         title |-> IF i = spaced THEN <<" ">> \o Pad(i) ELSE Pad(i),
         page  |-> IF ascending THEN Min(i, MaxDocPages) ELSE 1]]

DocTocs ==
    {MakeToc(levels, spaced, ascending) :
        levels \in SeqsUpTo(1..MaxLevel, MaxEntries),
        spaced \in 0..MaxEntries,
        ascending \in BOOLEAN}

Node(t, p, l, c) == [title |-> t, page |-> p, level |-> l, children |-> c]

\* trees as an editor may send them
EditedOutlines ==
    {<<>>,
     \* stored levels that are not the nesting depth
     <<Node(Pad(1), JInt(1), 3, <<Node(Pad(2), JInt(1), 1, <<>>)>>)>>,
     \* a blank title below the first node, after a valid sibling
     <<Node(Pad(1), JInt(1), 1,
            <<Node(Pad(2), JInt(1), 2, <<>>), Node(<<" ">>, JInt(1), 2, <<>>)>>),
       Node(Pad(3), JInt(1), 1, <<>>)>>,
     \* a page beyond the document at the last node
     <<Node(Pad(1), JInt(1), 1, <<Node(Pad(2), JInt(1), 2, <<>>)>>),
       Node(Pad(3), JInt(MaxDocPages + 1), 1, <<>>)>>,
     \* page 0
     <<Node(Pad(1), JInt(1), 1, <<>>), Node(Pad(2), JInt(0), 1, <<>>)>>,
     \* page 1.5 and page 0.5
     <<Node(Pad(1), JInt(1), 1, <<Node(Pad(2), JFloat(1), 2, <<>>)>>)>>,
     <<Node(Pad(1), JFloat(0), 1, <<>>)>>,
     \* page "1"
     <<Node(Pad(1), JStr(1), 1, <<>>)>>,
     \* page null below the first node, a blank title at the second
     <<Node(Pad(1), JInt(1), 1, <<Node(Pad(2), JNull, 2, <<>>)>>),
       Node(<<" ">>, JInt(1), 1, <<>>)>>,
     \* a padded title with a page beyond the document, a blank title below it
     <<Node(<<" ">> \o Pad(1), JInt(MaxDocPages + 1), 1,
            <<Node(<<" ">>, JInt(1), 2, <<>>)>>)>>,
     \* page 1.5, then page 0
     <<Node(Pad(1), JFloat(1), 1, <<>>), Node(Pad(2), JInt(0), 1, <<>>)>>}

(***************************************************************************)
(* Initial states                                                          *)
(***************************************************************************)
SanitizeIdle ==
    /\ name = <<>>
    /\ filename = <<>>
    /\ calls = 0

OutlineIdle ==
    /\ doc_toc = <<>>
    /\ tmp_exists = FALSE
    /\ opc = "idle"
    /\ toc_rows = <<>>
    /\ outline = <<>>
    /\ submitted = <<>>
    /\ flat_toc = <<>>
    /\ response = NoResponse

SplitIdle ==
    /\ mode = "web"
    /\ toc_data = <<>>
    /\ page_offset = 0
    /\ selected = <<>>
    /\ pc = "idle"
    /\ chapters = <<>>
    /\ results = <<>>
    /\ files = {}
    /\ dir_created = FALSE

BookmarksIdle ==
    /\ bpc = "idle"
    /\ toc_list = <<>>

WorkflowIdle ==
    /\ steps = {}
    /\ dir_given = FALSE
    /\ input_has_toc = FALSE
    /\ wpc = "idle"
    /\ executed = <<>>
    /\ answers = <<>>
    /\ bookmarked_pdf = "input"
    /\ split_input = "none"
    /\ chapters_dir = "none"

SummarizeIdle ==
    /\ tool = "summarize"
    /\ pdf_files = <<>>
    /\ md_files = {}
    /\ start_from = 1
    /\ spc = "idle"
    /\ loop_i = 0
    /\ sent = <<>>
    /\ succeeded = <<>>
    /\ runs = 0

ToolsIdle == BookmarksIdle /\ WorkflowIdle /\ SummarizeIdle

InitSanitize ==
    /\ name \in NameInputs
    /\ filename = <<>>
    /\ calls = 0
    /\ total_pages = 1
    /\ SplitIdle
    /\ OutlineIdle
    /\ ToolsIdle

\* a request not yet served: the CLI with bookmarks (the offset is not used), the
\* CLI with a toc.json and an offset, or the web request with its chosen anchors
SplitRequest(tocs, anchorSeqs) ==
    /\ total_pages \in 1..MaxPages
    /\ \/ /\ mode = "bookmarks"
          /\ toc_data \in tocs
          /\ page_offset = 0
          /\ selected = <<>>
       \/ /\ mode = "json"
          /\ toc_data \in tocs
          /\ page_offset \in PageOffsets
          /\ selected = <<>>
       \/ /\ mode = "web"
          /\ toc_data = <<>>
          /\ page_offset = 0
          /\ selected \in anchorSeqs
    /\ pc = "start"
    /\ chapters = <<>>
    /\ results = <<>>
    /\ files = {}
    /\ dir_created = FALSE

InitSplit ==
    /\ SplitRequest(SeqsUpTo(SplitEntries, MaxToc), SeqsUpTo(Anchors, MaxToc))
    /\ SanitizeIdle
    /\ OutlineIdle
    /\ ToolsIdle

InitOutline ==
    /\ total_pages \in 1..MaxDocPages
    /\ doc_toc \in DocTocs
    /\ tmp_exists \in BOOLEAN
    /\ opc = "start"
    /\ toc_rows = <<>>
    /\ outline = <<>>
    /\ submitted = <<>>
    /\ flat_toc = <<>>
    /\ response = NoResponse
    /\ SanitizeIdle
    /\ SplitIdle
    /\ ToolsIdle

\* the CLI alone, over tables of contents that mix levels and title shapes
InitDetect ==
    /\ SplitRequest(SeqsUpTo(DetectEntries, MaxToc), {})
    /\ SanitizeIdle
    /\ OutlineIdle
    /\ ToolsIdle

\* main.py apply: a toc.json, an offset and a document
InitBookmarks ==
    /\ total_pages \in 1..MaxPages
    /\ toc_data \in SeqsUpTo(SplitEntries, MaxToc)
    /\ page_offset \in PageOffsets
    /\ bpc = "start"
    /\ toc_list = <<>>
    /\ mode = "web"
    /\ selected = <<>>
    /\ pc = "idle"
    /\ chapters = <<>>
    /\ results = <<>>
    /\ files = {}
    /\ dir_created = FALSE
    /\ SanitizeIdle
    /\ OutlineIdle
    /\ WorkflowIdle
    /\ SummarizeIdle

\* the CLI over a table whose second entry carries the title to classify
InitClassify ==
    /\ SplitRequest(ClassifyTocs, {})
    /\ SanitizeIdle
    /\ OutlineIdle
    /\ ToolsIdle

\* workflow.py main after its argument checks (line 286)
InitWorkflow ==
    /\ steps \in StepSets
    /\ dir_given \in BOOLEAN
    /\ input_has_toc \in BOOLEAN
    /\ wpc = NextStepFrom(steps, 1)
    /\ executed = <<>>
    /\ answers = <<>>
    /\ bookmarked_pdf = "input"
    /\ split_input = "none"
    /\ chapters_dir = IF dir_given THEN "given" ELSE "none"
    /\ total_pages = 1
    /\ SanitizeIdle
    /\ SplitIdle
    /\ OutlineIdle
    /\ BookmarksIdle
    /\ SummarizeIdle

\* a chapter directory, some summaries already in place, no run yet
InitSummarize ==
    /\ tool \in {"summarize", "workflow"}
    /\ \E n \in 0..MaxChapters :
          /\ pdf_files = [i \in 1..n |-> i]
          /\ md_files \in SUBSET (1..n)
          /\ sent = [i \in 1..n |-> 0]
          /\ succeeded = [i \in 1..n |-> 0]
    /\ start_from = 1
    /\ spc = "ready"
    /\ loop_i = 0
    /\ runs = 0
    /\ total_pages = 1
    /\ SanitizeIdle
    /\ SplitIdle
    /\ OutlineIdle
    /\ BookmarksIdle
    /\ WorkflowIdle

(***************************************************************************)
(* Actions                                                                 *)
(***************************************************************************)

\* one call; from the second call on the argument is the previous result
SanitizeFilename ==
    /\ calls < MaxCalls
    /\ name' = IF calls = 0 THEN name ELSE filename
    /\ filename' = sanitize_filename(name')
    /\ calls' = calls + 1
    /\ UNCHANGED <<splitVars, outlineVars, bmVars, wfVars, sumVars, total_pages>>

\* main(): the table of contents as read from the source the arguments name
TocRead ==
    IF mode = "json"
    THEN get_toc_from_json(toc_data, page_offset)
    ELSE get_toc_from_bookmarks(toc_data)

\* split_chapters.py main(): the input file (and the toc.json, when named) exist
main ==
    /\ pc = "start"
    /\ mode \in {"bookmarks", "json"}
    /\ LET toc == TocRead
           r == split_chapters(toc, total_pages)
       IN  IF mode = "bookmarks" /\ toc = <<>>
           THEN /\ pc' = "exit1"
                /\ UNCHANGED <<chapters, results, files, dir_created>>
           ELSE /\ dir_created' = TRUE
                /\ pc' = r.pc
                /\ chapters' = r.chapters
                /\ results' = r.results
                /\ files' = r.files
    /\ UNCHANGED <<mode, toc_data, page_offset, selected, total_pages>>
    /\ UNCHANGED <<sanVars, outlineVars, bmVars, wfVars, sumVars>>

\* app.py /api/split-chapters: the file exists
api_split_chapters ==
    /\ pc = "start"
    /\ mode = "web"
    /\ IF selected = <<>>
       THEN /\ pc' = "error400"
            /\ UNCHANGED <<chapters, results, files, dir_created>>
       ELSE LET sorted == sort_by_page(selected)
                rs == api_split_loop(sorted, total_pages)
            IN  /\ dir_created' = TRUE
                /\ chapters' = sorted
                /\ results' = rs
                /\ files' = SaveAll({}, rs)
                /\ pc' = "done"
    /\ UNCHANGED <<mode, toc_data, page_offset, selected, total_pages>>
    /\ UNCHANGED <<sanVars, outlineVars, bmVars, wfVars, sumVars>>

\* app.py /api/outline
api_outline ==
    /\ opc \in {"start", "saved"}
    /\ toc_rows' = doc_toc
    /\ outline' = build_tree(doc_toc)
    /\ opc' = "shown"
    /\ submitted' = <<>>
    /\ flat_toc' = <<>>
    /\ response' = NoResponse
    /\ UNCHANGED <<doc_toc, tmp_exists, total_pages>>
    /\ UNCHANGED <<sanVars, splitVars, bmVars, wfVars, sumVars>>

\* app.py /api/outline/save with the tree as shown or an edited one; failed says
\* that doc.save or os.replace raised
api_save_outline ==
    /\ opc = "shown"
    /\ \E body \in {outline} \cup EditedOutlines, failed \in BOOLEAN :
          LET r == _outline_tree_to_flat(body, total_pages, 1)
          IN  /\ submitted' = body
              /\ IF r.raised
                 THEN /\ response' = [status |-> 400, error |-> r.error, title |-> r.title]
                      /\ flat_toc' = <<>>
                      /\ doc_toc' = doc_toc
                 ELSE IF ~failed
                 THEN /\ response' = [status |-> 200, error |-> "", title |-> <<>>]
                      /\ flat_toc' = r.flat
                      /\ doc_toc' = r.flat
                 ELSE /\ response' = [status |-> 500, error |-> "save", title |-> <<>>]
                      /\ flat_toc' = r.flat
                      /\ doc_toc' = doc_toc
    /\ tmp_exists' = FALSE
    /\ opc' = "saved"
    /\ UNCHANGED <<toc_rows, outline, total_pages>>
    /\ UNCHANGED <<sanVars, splitVars, bmVars, wfVars, sumVars>>

\* main.py apply: the input file and the toc.json exist
apply ==
    /\ bpc = "start"
    /\ toc_list' = add_bookmarks(toc_data, page_offset, total_pages)
    /\ bpc' = "done"
    /\ UNCHANGED <<sanVars, splitVars, outlineVars, wfVars, sumVars, total_pages>>

\* step 1a: extract_toc_pages, which may raise
step1a ==
    /\ wpc = "1a"
    /\ executed' = Append(executed, "1a")
    /\ \E ok \in BOOLEAN : wpc' = IF ok THEN "confirm_1a" ELSE "exception"
    /\ UNCHANGED <<steps, dir_given, input_has_toc, answers, bookmarked_pdf,
                   split_input, chapters_dir>>
    /\ UNCHANGED <<sanVars, splitVars, outlineVars, bmVars, sumVars, total_pages>>

\* step 1b: parse_toc_with_gemini and the writing of the toc.json
step1b ==
    /\ wpc = "1b"
    /\ executed' = Append(executed, "1b")
    /\ \E ok \in BOOLEAN : wpc' = IF ok THEN "confirm_1b" ELSE "exception"
    /\ UNCHANGED <<steps, dir_given, input_has_toc, answers, bookmarked_pdf,
                   split_input, chapters_dir>>
    /\ UNCHANGED <<sanVars, splitVars, outlineVars, bmVars, sumVars, total_pages>>

\* step 1c: the toc.json read again and add_bookmarks
step1c ==
    /\ wpc = "1c"
    /\ executed' = Append(executed, "1c")
    /\ \E ok \in BOOLEAN : wpc' = IF ok THEN "confirm_1c" ELSE "exception"
    /\ UNCHANGED <<steps, dir_given, input_has_toc, answers, bookmarked_pdf,
                   split_input, chapters_dir>>
    /\ UNCHANGED <<sanVars, splitVars, outlineVars, bmVars, sumVars, total_pages>>

\* step2_split_chapters up to its confirmation: the bookmarks of the PDF main
\* hands over are read (those of a PDF step 1 wrote may be empty too), and the
\* PDF is split unless it has none
step2_split_chapters ==
    /\ wpc = "2"
    /\ executed' = Append(executed, "2")
    /\ split_input' = bookmarked_pdf
    /\ \E toc_found \in (IF bookmarked_pdf = "input" THEN {input_has_toc} ELSE BOOLEAN),
          ok \in BOOLEAN :
          wpc' = IF ~toc_found THEN "exit1"
                 ELSE IF ok THEN "confirm_2" ELSE "exception"
    /\ UNCHANGED <<steps, dir_given, input_has_toc, answers, bookmarked_pdf,
                   chapters_dir>>
    /\ UNCHANGED <<sanVars, splitVars, outlineVars, bmVars, sumVars, total_pages>>

\* main line 299 and step3_summarize up to its confirmation: without a chapter
\* directory, or without a PDF in it, the run ends
step3_summarize ==
    /\ wpc = "3"
    /\ IF chapters_dir = "none"
       THEN /\ wpc' = "exit1"
            /\ executed' = executed
       ELSE /\ executed' = Append(executed, "3")
            /\ \E found \in BOOLEAN : wpc' = IF found THEN "confirm_3" ELSE "exit1"
    /\ UNCHANGED <<steps, dir_given, input_has_toc, answers, bookmarked_pdf,
                   split_input, chapters_dir>>
    /\ UNCHANGED <<sanVars, splitVars, outlineVars, bmVars, sumVars, total_pages>>

\* the loop of step3_summarize: it runs to its end or stops at a failure
step3_loop ==
    /\ wpc = "3_api"
    /\ executed' = Append(executed, "3_api")
    /\ \E ok \in BOOLEAN : wpc' = IF ok THEN "finished" ELSE "exit1"
    /\ UNCHANGED <<steps, dir_given, input_has_toc, answers, bookmarked_pdf,
                   split_input, chapters_dir>>
    /\ UNCHANGED <<sanVars, splitVars, outlineVars, bmVars, sumVars, total_pages>>

\* confirm() returns (it asks again until the answer is y or n); on yes the
\* step function goes on or returns its result to main
confirm ==
    /\ wpc \in {"confirm_1a", "confirm_1b", "confirm_1c", "confirm_2", "confirm_3"}
    /\ \E yes \in BOOLEAN :
          /\ answers' = Append(answers, yes)
          /\ wpc' = after_confirm(steps, wpc, yes)
          /\ bookmarked_pdf' = IF wpc = "confirm_1c" /\ yes
                               THEN "bookmarked" ELSE bookmarked_pdf
          /\ chapters_dir' = IF wpc = "confirm_2" /\ yes THEN "book" ELSE chapters_dir
    /\ UNCHANGED <<steps, dir_given, input_has_toc, executed, split_input>>
    /\ UNCHANGED <<sanVars, splitVars, outlineVars, bmVars, sumVars, total_pages>>

\* a run up to its loop: the PDFs are listed (none: exit 1); the workflow asks
\* for a confirmation first, and a run that is refused sends nothing
summarize_start ==
    /\ spc \in {"ready", "done", "exit1"}
    /\ runs < MaxRuns
    /\ runs' = runs + 1
    /\ \E from \in 1..(Len(pdf_files) + 1) :
          start_from' = IF tool = "summarize" THEN from ELSE 1
    /\ IF pdf_files = <<>>
       THEN spc' = "exit1" /\ loop_i' = 0
       ELSE spc' = "loop" /\ loop_i' = 1
    /\ UNCHANGED <<tool, pdf_files, md_files, sent, succeeded>>
    /\ UNCHANGED <<sanVars, splitVars, outlineVars, bmVars, wfVars, total_pages>>

\* one iteration of the loop, or its end; ok says that the try block (the call
\* of summarize_chapter and the writing of the summary) went through
summarize_step ==
    /\ spc = "loop"
    /\ IF loop_i > Len(pdf_files)
       THEN /\ spc' = "done"
            /\ UNCHANGED <<loop_i, md_files, sent, succeeded>>
       ELSE LET chapter == pdf_files[loop_i]
            IN  IF \/ before_start(tool, loop_i, start_from)
                   \/ already_summarized(md_files, chapter)
                THEN /\ loop_i' = loop_i + 1
                     /\ UNCHANGED <<spc, md_files, sent, succeeded>>
                ELSE /\ sent' = [sent EXCEPT ![chapter] = @ + 1]
                     /\ \E ok \in BOOLEAN :
                           IF ok
                           THEN /\ succeeded' = [succeeded EXCEPT ![chapter] = @ + 1]
                                /\ md_files' = md_files \cup {chapter}
                                /\ loop_i' = loop_i + 1
                                /\ spc' = spc
                           ELSE /\ spc' = "exit1"
                                /\ UNCHANGED <<loop_i, md_files, succeeded>>
    /\ UNCHANGED <<tool, pdf_files, start_from, runs>>
    /\ UNCHANGED <<sanVars, splitVars, outlineVars, bmVars, wfVars, total_pages>>

(***************************************************************************)
(* Specifications                                                          *)
(***************************************************************************)
NextSanitize == SanitizeFilename

SpecSanitize == InitSanitize /\ [][NextSanitize]_vars

NextSplit == main \/ api_split_chapters

SpecSplit == InitSplit /\ [][NextSplit]_vars

NextOutline == api_outline \/ api_save_outline

SpecOutline == InitOutline /\ [][NextOutline]_vars

NextDetect == main

SpecDetect == InitDetect /\ [][NextDetect]_vars

NextBookmarks == apply

SpecBookmarks == InitBookmarks /\ [][NextBookmarks]_vars

NextClassify == main

SpecClassify == InitClassify /\ [][NextClassify]_vars

NextWorkflow ==
    \/ step1a
    \/ step1b
    \/ step1c
    \/ step2_split_chapters
    \/ step3_summarize
    \/ step3_loop
    \/ confirm

SpecWorkflow == InitWorkflow /\ [][NextWorkflow]_vars

NextSummarize == summarize_start \/ summarize_step

SpecSummarize == InitSummarize /\ [][NextSummarize]_vars

(***************************************************************************)
(* Claims                                                                  *)
(***************************************************************************)

ValidEntries(rows) ==
    \A i \in DOMAIN rows :
        /\ rows[i].level >= 1
        /\ rows[i].title # <<>>
        /\ rows[i].page \in 1..total_pages

\* the first row is at level 1 and no row is more than one level below its
\* predecessor
ContiguousLevels(rows) ==
    \A i \in DOMAIN rows :
        rows[i].level <= (IF i = 1 THEN 0 ELSE rows[i - 1].level) + 1

TrimmedTitles(rows) ==
    \A i \in DOMAIN rows : strip(rows[i].title, Whitespace) = rows[i].title

\* the tree of /api/outline was sent back unchanged
SavedAsShown == opc = "saved" /\ submitted = outline

SinglePage(r) == r.end = r.start

SharePage(r, q) == r.start <= q.end /\ q.start <= r.end

\* C2: every chapter range a finished split produced lies inside the document:
\*     1 <= startPage <= endPage <= totalPages, whatever the anchor pages were.
BoundsInvariant ==
    pc = "done" =>
        \A i \in DOMAIN results :
            /\ 1 <= results[i].start
            /\ results[i].start <= results[i].end
            /\ results[i].end <= total_pages

\* a finished CLI split over three anchors, one below page 1, one beyond the
\* last page, and not in page order
BoundsWitness ==
    /\ pc = "done"
    /\ mode = "json"
    /\ Len(results) = 3
    /\ \E i \in DOMAIN chapters : chapters[i].page < 1
    /\ \E i \in DOMAIN chapters : chapters[i].page > total_pages
    /\ \E i \in 1..(Len(chapters) - 1) : chapters[i].page > chapters[i + 1].page

\* C3: consecutive chapters of a finished split are adjacent
\*     (end = next start - 1) unless one of the two is a single page, and no two
\*     chapters share a page unless one of the two is a single page.
NonOverlap ==
    pc = "done" =>
        /\ \A i \in 1..(Len(results) - 1) :
              \/ results[i].end = results[i + 1].start - 1
              \/ SinglePage(results[i])
              \/ SinglePage(results[i + 1])
        /\ \A i, j \in DOMAIN results :
              i < j =>
                \/ ~SharePage(results[i], results[j])
                \/ SinglePage(results[i])
                \/ SinglePage(results[j])

\* the nodes of a tree in document order (a node before its children)
RECURSIVE PreorderNodes(_)
PreorderNodes(nodes) ==
    IF nodes = <<>> THEN <<>>
    ELSE <<Head(nodes)>> \o PreorderNodes(Head(nodes).children)
            \o PreorderNodes(Tail(nodes))

\* the nesting depth of each node, in document order; the top level is depth d
RECURSIVE PreorderDepths(_, _)
PreorderDepths(nodes, d) ==
    IF nodes = <<>> THEN <<>>
    ELSE <<d>> \o PreorderDepths(Head(nodes).children, d + 1)
            \o PreorderDepths(Tail(nodes), d)

BlankTitle(node) == \A i \in DOMAIN node.title : node.title[i] \in Whitespace

\* a save request was served in this step
SaveServed == opc = "shown" /\ opc' = "saved"

\* the save was refused as a whole: no flat list, the stored outline as before,
\* no temporary file
SaveRejected ==
    /\ response'.status = 400
    /\ flat_toc' = <<>>
    /\ doc_toc' = doc_toc
    /\ ~tmp_exists'

\* C8 as stated: a save whose tree has, anywhere, a node with a blank title or a
\*     page that is not an integer in [1, totalPages] is refused as a whole.
SaveAtomic ==
    [][(SaveServed
          /\ \E i \in DOMAIN PreorderNodes(submitted') :
                LET node == PreorderNodes(submitted')[i]
                IN  \/ BlankTitle(node)
                    \/ node.page.kind # "int"
                    \/ node.page.value \notin 1..total_pages)
        => SaveRejected]_vars

\* C8: a save whose tree has, anywhere, a node with a blank title, a page that
\*     int() cannot convert (null) or a page whose conversion (a fraction cut off, a
\*     decimal string parsed) is not in [1, totalPages] is refused as a whole.
SaveAtomicConverted ==
    [][(SaveServed
          /\ \E i \in DOMAIN PreorderNodes(submitted') :
                LET node == PreorderNodes(submitted')[i]
                IN  \/ BlankTitle(node)
                    \/ node.page.kind = "null"
                    \/ node.page.value \notin 1..total_pages)
        => SaveRejected]_vars

\* a refused save whose fault lies below the first node, after two valid nodes,
\* on a document that has an outline
SaveAtomicWitness ==
    /\ opc = "saved"
    /\ response.status = 400
    /\ Len(PreorderNodes(submitted)) >= 3
    /\ ~BlankTitle(PreorderNodes(submitted)[1])
    /\ ~BlankTitle(PreorderNodes(submitted)[2])
    /\ BlankTitle(PreorderNodes(submitted)[3])
    /\ doc_toc # <<>>

Levels(rows) == [i \in DOMAIN rows |-> rows[i].level]

SanitizeIdempotent == calls = 2 => filename = name

NumberedIdx(toc) == {i \in DOMAIN toc : chapter_pattern(toc[i].title)}

\* the positions among idx whose level is the smallest level found in idx
TopIdx(toc, idx) == {i \in idx : \A j \in idx : toc[i].level <= toc[j].level}

\* out lists exactly the entries of toc at the positions idx, in toc's order
IsSelection(out, toc, idx) ==
    /\ Len(out) = Cardinality(idx)
    /\ \A i \in idx : out[Cardinality({j \in idx : j <= i})] = toc[i]

\* C5: when some entry is numbered, the detector returns exactly the numbered
\*     entries at the smallest level found among numbered entries, in document order.
NumberedSelection ==
    (pc # "start" /\ NumberedIdx(TocRead) # {}) =>
        /\ pc = "done"
        /\ IsSelection(chapters, TocRead, TopIdx(TocRead, NumberedIdx(TocRead)))

\* a finished run that kept two different numbered entries and left out the
\* un-numbered entry of the same level that stands between them
NumberedSelectionWitness ==
    /\ pc = "done"
    /\ Len(TocRead) = 3
    /\ chapters = <<TocRead[1], TocRead[3]>>
    /\ TocRead[1] # TocRead[3]
    /\ ~chapter_pattern(TocRead[2].title)
    /\ TocRead[2].level = TocRead[1].level

\* C6: when no entry of a non-empty table is numbered, the detector returns all
\*     entries at the smallest level present, in document order.
FallbackSelection ==
    (pc # "start" /\ TocRead # <<>> /\ NumberedIdx(TocRead) = {}) =>
        /\ pc = "done"
        /\ IsSelection(chapters, TocRead, TopIdx(TocRead, DOMAIN TocRead))

\* a finished run without numbered entries whose first entry is deeper than the
\* selected level
FallbackWitness ==
    /\ pc = "done"
    /\ NumberedIdx(TocRead) = {}
    /\ Len(chapters) = 2
    /\ TocRead[1].level > chapters[1].level

\* C7: a run over an empty table of contents ends as "nothing to split"
\*     (the reported error exit), never in an uncaught exception.
EmptyTocNoCrash ==
    (pc # "start" /\ mode \in {"bookmarks", "json"} /\ TocRead = <<>>) => pc = "exit1"

\* C10: whatever the order of the anchors, a finished split ran over the anchors
\*      in ascending page order, so the chapters' start pages never decrease.
SplitInPageOrder ==
    pc = "done" =>
        \A i \in 1..(Len(results) - 1) : results[i].start <= results[i + 1].start

clamp(x, lo, hi) == IF x < lo THEN lo ELSE IF x > hi THEN hi ELSE x

\* C11: for every entry, offset and totalPages >= 1, add_bookmarks writes the page
\*      clamp(printedPage + offset, 1, totalPages), a page within [1, totalPages],
\*      and passes level and title through unchanged, in the same order.
OffsetMapping ==
    bpc = "done" =>
        /\ Len(toc_list) = Len(toc_data)
        /\ \A i \in DOMAIN toc_data :
              /\ toc_list[i].level = toc_data[i].level
              /\ toc_list[i].title = toc_data[i].title
              /\ toc_list[i].page = clamp(toc_data[i].page + page_offset, 1, total_pages)
              /\ toc_list[i].page \in 1..total_pages

\* bookmarks written with a non-zero offset: one page raised to 1, one lowered to
\* the last page, one moved by the offset and left there
OffsetMappingWitness ==
    /\ bpc = "done"
    /\ page_offset # 0
    /\ Len(toc_list) = 3
    /\ toc_data[1].page + page_offset < 1 /\ toc_list[1].page = 1
    /\ toc_data[2].page + page_offset > total_pages /\ toc_list[2].page = total_pages
    /\ toc_list[3].page = toc_data[3].page + page_offset
    /\ toc_list[1].level # toc_list[2].level

\* C12: every entry that reaches the detector from a toc.json source carries the
\*      page clamp(printedPage + offset, 1, totalPages), a page inside
\*      [1, totalPages].
JsonEntriesNormalized ==
    (mode = "json" /\ pc # "start") =>
        \A i \in DOMAIN toc_data :
            /\ TocRead[i].page = clamp(toc_data[i].page + page_offset, 1, total_pages)
            /\ TocRead[i].page \in 1..total_pages

\* the anchors a request selects: the web request's own, the detector's on the CLI
SelectedAnchors ==
    IF mode = "web" THEN selected ELSE find_top_level_chapters(TocRead).value

Count(seq, x) == Cardinality({i \in DOMAIN seq : seq[i] = x})

\* C13: a split request with an empty anchor set ends with an error and leaves
\*      no chapter file and no output directory; a request with a non-empty anchor
\*      set skips no anchor: it produces exactly one range per anchor.
EmptyAnchorsRejected ==
    pc # "start" =>
        IF SelectedAnchors = <<>>
        THEN /\ pc \in {"exit1", "error400", "exception"}
             /\ files = {}
             /\ ~dir_created
        ELSE /\ pc = "done"
             /\ Len(results) = Len(SelectedAnchors)
             /\ \A i \in DOMAIN SelectedAnchors :
                   Count(chapters, SelectedAnchors[i])
                       = Count(SelectedAnchors, SelectedAnchors[i])
             /\ \A i \in DOMAIN results : results[i].title = chapters[i].title

Ascending(anchors) ==
    \A i \in 1..(Len(anchors) - 1) : anchors[i].page <= anchors[i + 1].page

InRange(anchors) == \A i \in DOMAIN anchors : anchors[i].page \in 1..total_pages

\* C14: over anchors in ascending page order, chapter i has
\*      startPage = clamp(page_i, 1, totalPages) and
\*      endPage = clamp(max(e_i, startPage), startPage, totalPages), where e_i is the
\*      next anchor's page - 1, or totalPages for the last anchor; so in-range
\*      anchors on distinct pages give [p_i, p_(i+1) - 1] and [p_n, totalPages], and
\*      two anchors on one page p give [p, p] and then a range starting at p.
RangeDerivation ==
    (pc = "done" /\ Ascending(chapters)) =>
        /\ Len(results) = Len(chapters)
        /\ \A i \in DOMAIN chapters :
              LET last == i = Len(chapters)
                  e == IF last THEN total_pages ELSE chapters[i + 1].page - 1
                  startPage == clamp(chapters[i].page, 1, total_pages)
              IN  /\ results[i].start = startPage
                  /\ results[i].end = clamp(Max(e, startPage), startPage, total_pages)
                  /\ (InRange(chapters) /\ last) =>
                        /\ results[i].start = chapters[i].page
                        /\ results[i].end = total_pages
                  /\ (InRange(chapters) /\ ~last
                        /\ chapters[i].page < chapters[i + 1].page) =>
                        /\ results[i].start = chapters[i].page
                        /\ results[i].end = chapters[i + 1].page - 1
                  /\ (InRange(chapters) /\ ~last
                        /\ chapters[i].page = chapters[i + 1].page) =>
                        /\ results[i].start = chapters[i].page
                        /\ results[i].end = chapters[i].page
                        /\ results[i + 1].start = chapters[i].page

\* a finished web split whose request was not in page order: three in-range
\* anchors, the last two on one page before the end of the document
RangeDerivationWitness ==
    /\ pc = "done"
    /\ mode = "web"
    /\ selected # chapters
    /\ Len(chapters) = 3
    /\ InRange(chapters)
    /\ chapters[1].page < chapters[2].page
    /\ chapters[2].page = chapters[3].page
    /\ results[2].end = results[2].start
    /\ results[3].end > results[3].start

\* the violation the claim names in a node, "" when it names none
FaultAsStated(node) ==
    IF BlankTitle(node) THEN "empty title"
    ELSE IF node.page.kind # "int" THEN "invalid page"
    ELSE IF node.page.value \notin 1..total_pages THEN "page out of range"
    ELSE ""

\* the same with the page taken as int() converts it
Fault(node) ==
    IF BlankTitle(node) THEN "empty title"
    ELSE IF node.page.kind = "null" THEN "invalid page"
    ELSE IF node.page.value \notin 1..total_pages THEN "page out of range"
    ELSE ""

ValidationFailed == opc = "saved" /\ response.status = 400

ParentOf(rows, i) ==
    LET smaller == {j \in 1..(i - 1) : rows[j].level < rows[i].level}
    IN  IF smaller = {} THEN 0 ELSE CHOOSE j \in smaller : \A k \in smaller : k <= j

\* the rows whose parent is p, in document order, each with its own subtree
RECURSIVE TreeByRule(_, _)
TreeByRule(rows, p) ==
    LET kids == {i \in DOMAIN rows : ParentOf(rows, i) = p}
        kth(k) == CHOOSE i \in kids : Cardinality({j \in kids : j <= i}) = k
    IN  [k \in 1..Cardinality(kids) |->
            Node(rows[kth(k)].title, JInt(rows[kth(k)].page), rows[kth(k)].level,
                 TreeByRule(rows, kth(k)))]

\* the levels on the stack after the first i rows, the sentinel first
RECURSIVE StackLevels(_, _)
StackLevels(rows, i) ==
    IF i = 0 THEN <<[level |-> 0]>>
    ELSE Append(PopStack(StackLevels(rows, i - 1), rows[i].level),
                [level |-> rows[i].level])

\* C16: for rows with levels >= 1, build_tree attaches each row as the last child
\*      of the nearest preceding row whose level is strictly smaller, or at the top
\*      when there is none, rows that skip depths included, and never pops the
\*      sentinel root from the stack.
TreeConstruction ==
    opc = "shown" =>
        /\ outline = TreeByRule(toc_rows, 0)
        /\ PreorderNodes(outline) =
              [i \in DOMAIN toc_rows |->
                  Node(toc_rows[i].title, JInt(toc_rows[i].page), toc_rows[i].level,
                       PreorderNodes(outline)[i].children)]
        /\ \A i \in 0..Len(toc_rows) : StackLevels(toc_rows, i)[1].level = 0

\* a tree built from rows of levels 1, 3, 2: the level-3 row and the level-2 row
\* are both children of the first row
TreeConstructionWitness ==
    /\ opc = "shown"
    /\ Levels(toc_rows) = <<1, 3, 2>>
    /\ Len(outline) = 1
    /\ Len(outline[1].children) = 2
    /\ outline[1].children[1].level = 3
    /\ outline[1].children[1].children = <<>>

AllIn(t, a, b, class) == \A i \in a..b : t[i] \in class

chapterLetters ==
    <<{"c", "C"}, {"h", "H"}, {"a", "A"}, {"p", "P"}, {"t", "T"}, {"e", "E"},
      {"r", "R"}>>

\* t begins with the word in any letter case, then at least gap blanks, then a digit
BeginsChapterDigits(t, gap) ==
    /\ Len(t) > Len(chapterLetters)
    /\ \A i \in DOMAIN chapterLetters : t[i] \in chapterLetters[i]
    /\ \E k \in (Len(chapterLetters) + 1 + gap)..Len(t) :
          /\ AllIn(t, Len(chapterLetters) + 1, k - 1, Whitespace)
          /\ t[k] \in Digits

\* t begins with the first ideogram, digits and the second ideogram, with blanks
\* allowed on either side of the digits
BeginsIdeogramForm(t) ==
    /\ Len(t) >= 3
    /\ t[1] = DI
    /\ \E a, b, z \in 2..Len(t) :
          /\ a <= b /\ b < z
          /\ AllIn(t, 2, a - 1, Whitespace)
          /\ AllIn(t, a, b, Digits)
          /\ AllIn(t, b + 1, z - 1, Whitespace)
          /\ t[z] = ZHANG

\* t begins with an integer that is followed by a blank
BeginsInteger(t) ==
    \E k \in 1..(Len(t) - 1) : AllIn(t, 1, k, Digits) /\ t[k + 1] \in Whitespace

\* the title the run classified, and what the detector made of it
ClassifiedTitle == toc_data[2].title

TakenAsNumbered == chapters = <<TocRead[2]>>

Classified == pc = "done" /\ Len(toc_data) = 2 /\ toc_data[1] = PlainEntry

\* C17 as stated: a title is numbered if and only if its trimmed form begins with
\*      the word 'chapter' (any letter case) followed by digits, with the ideogram
\*      form, or with an integer followed by whitespace.
NumberedIffStated ==
    Classified =>
        LET t == strip(ClassifiedTitle, Whitespace)
        IN  TakenAsNumbered <=>
                \/ BeginsChapterDigits(t, 0)
                \/ BeginsIdeogramForm(t)
                \/ BeginsInteger(t)

\* C17: a title is numbered if and only if its trimmed form begins with the word
\*      'chapter' (any letter case) followed by whitespace and then digits, with
\*      the ideogram form, or with an integer followed by whitespace; a number
\*      later in the title never makes it numbered, and a dotted section number
\*      such as '1.1 A' is not numbered.
NumberedIffSpaced ==
    Classified =>
        LET t == strip(ClassifiedTitle, Whitespace)
        IN  /\ TakenAsNumbered <=>
                  \/ BeginsChapterDigits(t, 1)
                  \/ BeginsIdeogramForm(t)
                  \/ BeginsInteger(t)
            /\ (t # <<>> /\ t[1] \notin Digits \cup {DI} \cup chapterLetters[1]) =>
                  ~TakenAsNumbered
            /\ (Len(t) >= 2 /\ t[1] \in Digits /\ t[2] = ".") => ~TakenAsNumbered

\* a title with a leading blank and the word in mixed case, a blank and a digit
\* was taken as numbered
NumberedIffWitness ==
    /\ Classified
    /\ ClassifiedTitle = <<" ", "C", "h", "A", "p", "T", "e", "R", " ", "1", "A">>
    /\ TakenAsNumbered

SubSteps == <<"1a", "1b", "1c", "2", "3", "3_api">>

StepOf(sub) == IF sub \in {"1a", "1b", "1c"} THEN 1 ELSE IF sub = "2" THEN 2 ELSE 3

\* the sub-steps of the requested steps, in the fixed order
RequestedSubSteps == SelectSeq(SubSteps, LAMBDA sub : StepOf(sub) \in steps)

IsPrefix(a, b) == Len(a) <= Len(b) /\ a = SubSeq(b, 1, Len(a))

Started(sub) == \E i \in DOMAIN executed : executed[i] = sub

\* C18: the sub-steps of the requested steps start in the fixed order 1a, 1b, 1c,
\*      2, 3; each one after the first only after the preceding confirmation was
\*      answered yes; a no ends the run with no later sub-step started; and when
\*      step 1 ran, step 2 splits the bookmarked PDF that step 1 produced.
WorkflowOrder ==
    wpc # "idle" =>
        /\ IsPrefix(executed, RequestedSubSteps)
        /\ Len(answers) <= Len(executed)
        /\ \A i \in 1..(Len(executed) - 1) : i <= Len(answers) /\ answers[i]
        /\ \A i \in DOMAIN answers :
              ~answers[i] => /\ i = Len(answers)
                             /\ Len(executed) = i
                             /\ wpc = "exit0"
        /\ Started("2") =>
              split_input = IF Started("1c") THEN "bookmarked" ELSE "input"
        /\ ~Started("2") => split_input = "none"

\* a run of steps 1-3 that went through every sub-step and five confirmations
WorkflowOrderWitness ==
    /\ wpc = "finished"
    /\ executed = SubSteps
    /\ Len(answers) = 5
    /\ split_input = "bookmarked"

\* a call of summarize_chapter for chapter c was made in this step
Sent(c) == sent'[c] = sent[c] + 1

\* C19: in the batch summary loop a chapter whose summary file exists is never
\*      sent to the API again, a summary file is written only for a chapter whose
\*      summarization succeeded, the run stops at the first failing chapter
\*      without processing a later one, and over any sequence of re-runs each
\*      chapter is successfully summarized at most once.
ResumableSummaries ==
    /\ [][\A c \in DOMAIN sent :
            /\ c \in md_files => sent'[c] = sent[c]
            /\ (c \in md_files' /\ c \notin md_files) =>
                  Sent(c) /\ succeeded'[c] = succeeded[c] + 1
            /\ (Sent(c) /\ succeeded'[c] = succeeded[c]) =>
                  /\ spc' = "exit1"
                  /\ \A d \in DOMAIN sent : d # c => sent'[d] = sent[d]
            /\ (spc = "exit1" /\ runs' = runs) => sent'[c] = sent[c]]_vars
    /\ [](\A c \in DOMAIN succeeded : succeeded[c] <= 1)

\* after a second run: the first chapter sent once, the second sent twice (it
\* failed in the first run), the third sent only in the second run
ResumableSummariesWitness ==
    /\ runs = 2
    /\ spc = "done"
    /\ sent = <<1, 2, 1>>
    /\ succeeded = <<1, 1, 1>>
    /\ md_files = {1, 2, 3}

\* C20: for any input, sanitize_filename returns a non-empty name of at most 100
\*      characters without any of the characters \ / : * ? " < > |, which neither
\*      begins nor ends with a dot or a space; when the cleaned title would be
\*      empty the result is 'untitled'.
SanitizedShape ==
    calls >= 1 =>
        /\ filename # <<>>
        /\ Len(filename) <= 100
        /\ \A i \in DOMAIN filename : filename[i] \notin Forbidden
        /\ filename[1] \notin {".", " "}
        /\ filename[Len(filename)] \notin {".", " "}
        /\ (\A i \in DOMAIN name : name[i] \in {".", " "}) => filename = untitled

\* C21: within one split run different chapters are written to different file
\*      names, so no chapter's file replaces another's and the number of files
\*      produced equals the number of chapters processed, whatever the titles.
OneFilePerChapter ==
    pc = "done" =>
        /\ \A i, j \in DOMAIN results : i # j => results[i].file # results[j].file
        /\ Cardinality(files) = Len(results)
        /\ \A i \in DOMAIN results :
              [file |-> results[i].file, start |-> results[i].start,
               end |-> results[i].end] \in files

TitlePagePairs(rows) == [i \in DOMAIN rows |-> <<rows[i].title, rows[i].page>>]

====
